---- MODULE Spec2Model ----
(***************************************************************************)
(* The assertion library of smoothbrain-test (src/Test.go).                *)
(*                                                                         *)
(* A test unit is a goroutine running a test function with its own         *)
(* *testing.T.  Every assertion is a function that inspects its arguments  *)
(* and, on failure, calls FormatError, which formats a report and hands it *)
(* to t.Fatal.  t.Fatal logs the report, marks the unit failed and ends    *)
(* the goroutine (runtime.Goexit).                                         *)
(***************************************************************************)
EXTENDS Integers, Sequences, FiniteSets, TLC

(***************************************************************************)
(* Bounds of the model.                                                    *)
(***************************************************************************)
\* longest slice handed to SlicesMatch, SlicesMatchUnordered and EqOneOf
MaxLen == 3
\* assertion calls one test unit makes at most
MaxCalls == 2

\* element values of the slices, values of the maps
Elems == {1, 2}
\* keys of the maps
Keys == {"a", "b", "c"}
\* the independent test units
Units == {"u1", "u2"}

(***************************************************************************)
(* Go values as the assertions see them (an `any` is its dynamic value).   *)
(***************************************************************************)
NilV == [kind |-> "nil"]
IntV(n) == [kind |-> "int", int |-> n]
BoolV(b) == [kind |-> "bool", bool |-> b]
StrV(s) == [kind |-> "string", str |-> s]
SliceV(s, isnil) == [kind |-> "slice", isnil |-> isnil, elems |-> s]
ArrayV(s) == [kind |-> "array", elems |-> s]
MapV(m, isnil) == [kind |-> "map", isnil |-> isnil, entries |-> m]
PtrV(isnil) == [kind |-> "ptr", isnil |-> isnil]
ErrV(e) == [kind |-> "error", err |-> e]
\* a variable of an interface type holding `held` (NilV: the nil interface)
IfaceV(held) == [kind |-> "iface", held |-> held]

\* Passing x as a parameter of type `any`: the interface layers of x are
\* dropped, the parameter holds the dynamic value (or is nil).
RECURSIVE ToAny(_)
ToAny(x) == IF x.kind = "iface" THEN ToAny(x.held) ELSE x

\* Go's == on two values held in interfaces: same dynamic type, same value.
GoEq(a, b) ==
    /\ a.kind = b.kind
    /\ a = b

(***************************************************************************)
(* Errors: 0 is the nil error, 1 and 2 are errors.New values, 3 wraps 1,   *)
(* 4 wraps 3 and 5 wraps 2 (fmt.Errorf with %w).                           *)
(***************************************************************************)
Errors == 0..5

Unwrap(e) ==
    CASE e = 3 -> 1
      [] e = 4 -> 3
      [] e = 5 -> 2
      [] OTHER -> 0

\* errors.Is that looks at err only, not at what it wraps
ErrorsIsShallow(err, target) == err = target

\* errors.Is(err, target)
RECURSIVE ErrorsIs(_, _)
ErrorsIs(err, target) ==
    IF err = 0 \/ target = 0 THEN err = target
    ELSE IF err = target THEN TRUE
    ELSE IF Unwrap(err) = 0 THEN FALSE
    ELSE ErrorsIs(Unwrap(err), target)

(***************************************************************************)
(* fmt.Sprintf verbs used by FormatError.                                  *)
(***************************************************************************)
Digit == <<"0", "1", "2", "3", "4", "5", "6", "7", "8", "9">>

RECURSIVE Itoa(_)
Itoa(n) ==
    IF n < 10 THEN Digit[n + 1] ELSE Itoa(n \div 10) \o Digit[(n % 10) + 1]

RECURSIVE JoinInts(_)
JoinInts(s) ==
    IF Len(s) = 0 THEN ""
    ELSE IF Len(s) = 1 THEN Itoa(s[1])
    ELSE Itoa(s[1]) \o " " \o JoinInts(Tail(s))

\* the keys of a map, sorted (fmt prints maps in key order)
RECURSIVE JoinEntries(_, _)
JoinEntries(m, ks) ==
    IF Len(ks) = 0 THEN ""
    ELSE LET k == ks[1]
             rest == JoinEntries(m, Tail(ks))
         IN IF k \notin DOMAIN m THEN rest
            ELSE k \o ":" \o Itoa(m[k]) \o (IF rest = "" THEN "" ELSE " " \o rest)

SortedKeys == <<"a", "b", "c">>

\* %T
GoType(v) ==
    CASE v.kind = "nil" -> "<nil>"
      [] v.kind = "int" -> "int"
      [] v.kind = "bool" -> "bool"
      [] v.kind = "string" -> "string"
      [] v.kind = "slice" -> "[]int"
      [] v.kind = "array" -> "[" \o Itoa(Len(v.elems)) \o "]int"
      [] v.kind = "map" -> "map[string]int"
      [] v.kind = "ptr" -> "*int"
      [] v.kind = "error" -> IF v.err = 0 THEN "<nil>"
                             ELSE IF Unwrap(v.err) = 0 THEN "*errors.errorString"
                             ELSE "*fmt.wrapError"

\* %v
GoFmt(v) ==
    CASE v.kind = "nil" -> "<nil>"
      [] v.kind = "int" -> Itoa(v.int)
      [] v.kind = "bool" -> IF v.bool THEN "true" ELSE "false"
      [] v.kind = "string" -> v.str
      [] v.kind = "slice" -> "[" \o JoinInts(v.elems) \o "]"
      [] v.kind = "array" -> "[" \o JoinInts(v.elems) \o "]"
      [] v.kind = "map" -> "map[" \o JoinEntries(v.entries, SortedKeys) \o "]"
      [] v.kind = "ptr" -> IF v.isnil THEN "<nil>" ELSE "0xc000012345"
      [] v.kind = "error" -> IF v.err = 0 THEN "<nil>" ELSE "err" \o Itoa(v.err)

\* "(%T) '%v'"
ValueLine(v) == "(" \o GoType(v) \o ") '" \o GoFmt(v) \o "'"

(***************************************************************************)
(* reflect, as Nil and NotNil use it.                                      *)
(***************************************************************************)
\* reflect.TypeOf(v).Kind()
Kind(v) == v.kind

\* reflect.Value.Elem
Elem(v) == v.held

\* reflect.Value.IsZero
IsZero(v) ==
    CASE v.kind = "int" -> v.int = 0
      [] v.kind = "bool" -> ~v.bool
      [] v.kind = "string" -> v.str = ""
      [] v.kind = "slice" -> v.isnil
      [] v.kind = "map" -> v.isnil
      [] v.kind = "ptr" -> v.isnil
      [] v.kind = "array" -> \A i \in 1..Len(v.elems) : v.elems[i] = 0
      [] v.kind = "error" -> v.err = 0
      [] v.kind = "iface" -> v.held.kind = "nil"

(***************************************************************************)
(* The call stack and runtime.Caller.  A frame is a source position; the   *)
(* first frame of a stack is the function that is executing.               *)
(***************************************************************************)
Frame(file, line) == [file |-> file, line |-> line]

LibFile == "Test.go"
RuntimeFile == "runtime/panic.go"
RunnerFrame == Frame("testing/testing.go", 1792)

\* the position, in the test code of unit u, of its n-th assertion call
CallSite(u, n) == Frame(u \o "_test.go", 10 * n)

\* the stack inside an assertion function called from the test code at site
CallStack(libLine, site) == <<Frame(LibFile, libLine), site, RunnerFrame>>

\* the stack inside the deferred closure of Panics / NoPanic when it runs at
\* the return of the assertion function
DeferStackReturn(closureLine, returnLine, site) ==
    <<Frame(LibFile, closureLine), Frame(LibFile, returnLine), site, RunnerFrame>>

\* ... and when it runs while a panic raised by action unwinds: the closure
\* is called by the runtime's panic routine, above the frames of action and
\* of the assertion function
DeferStackPanic(closureLine, callLine, site) ==
    <<Frame(LibFile, closureLine), Frame(RuntimeFile, 785),
      Frame(site.file, site.line + 1), Frame(LibFile, callLine), site,
      RunnerFrame>>

\* runtime.Caller(skip): file and line of the skip-th caller
Caller(stack, skip) ==
    IF skip + 1 <= Len(stack) THEN stack[skip + 1] ELSE Frame("", 0)

(***************************************************************************)
(* The test unit: its testing.T and its goroutine.                         *)
(***************************************************************************)
NewUnit ==
    [failed |-> FALSE, halted |-> FALSE, crashed |-> FALSE,
     reports |-> <<>>, calls |-> 0]

\* the goroutine of the unit still executes statements
Running(t) == ~t.halted /\ ~t.crashed

\* Fatal as t.Error would do it: the goroutine goes on
FatalNoHalt(t, msg) ==
    [t EXCEPT !.reports = Append(@, msg), !.failed = TRUE]

\* t.Fatal: log the message, mark the unit failed, end the goroutine
Fatal(t, msg) ==
    [t EXCEPT !.reports = Append(@, msg), !.failed = TRUE, !.halted = TRUE]

\* a run-time panic nothing recovers (index out of range, ...)
Crash(t) == [t EXCEPT !.crashed = TRUE]

FormatError(t, expected, got, base, file, line) ==
    Fatal(t, [file |-> file, line |-> line, base |-> base,
              expected |-> ValueLine(expected), got |-> ValueLine(got)])

(***************************************************************************)
(* The assertions.  Each takes the unit t, its arguments and the position  *)
(* `site` of the call in the test code, and yields the unit afterwards.    *)
(* A statement that follows a call of FormatError executes only if the     *)
(* goroutine is still running.                                             *)
(***************************************************************************)
ContainsError(t, expected, got, site) ==
    IF ~ErrorsIs(got, expected)
    THEN LET loc == Caller(CallStack(36, site), 1)
         IN FormatError(t, ErrV(expected), ErrV(got),
                "The expected error was not contained in the given error.",
                loc.file, loc.line)
    ELSE t

\* recover() called one call too deep: it yields nil and the panic goes on
RecoverNested(panicking) == [r |-> "nil", panicking |-> panicking]

\* recover() called by a deferred closure: the value of the panic (nil if
\* there is none), and the panic stops
Recover(panicking) ==
    [r |-> IF panicking THEN "panic value" ELSE "nil", panicking |-> FALSE]

\* action is "returns" (runs to its end) or "panics"
Panics(t, action, site) ==
    LET rec == Recover(action = "panics")
        stack == IF action = "panics" THEN DeferStackPanic(52, 61, site)
                 ELSE DeferStackReturn(52, 62, site)
        t1 == IF rec.r = "nil"
              THEN LET loc == Caller(stack, 1)
                   IN FormatError(t, StrV("panic"), StrV(""),
                          "The supplied funciton did not panic when it should have.",
                          loc.file, loc.line)
              ELSE t
    IN IF rec.panicking THEN Crash(t1) ELSE t1

NoPanic(t, action, site) ==
    LET rec == Recover(action = "panics")
        stack == IF action = "panics" THEN DeferStackPanic(69, 78, site)
                 ELSE DeferStackReturn(69, 79, site)
        t1 == IF rec.r # "nil"
              THEN LET loc == Caller(stack, 1)
                   IN FormatError(t, StrV(""), StrV("panic"),
                          "The supplied funciton paniced when it shouldn't have.",
                          loc.file, loc.line)
              ELSE t
    IN IF rec.panicking THEN Crash(t1) ELSE t1

Eq(t, expected, got, site) ==
    IF expected # got
    THEN LET loc == Caller(CallStack(85, site), 1)
         IN FormatError(t, expected, got,
                "The supplied values were not equal but were expected to be.",
                loc.file, loc.line)
    ELSE t

\* the loop of EqOneOf: TRUE when it returns from inside the loop
RECURSIVE EqOneOfScan(_, _, _)
EqOneOfScan(expected, data, i) ==
    IF i > Len(data) THEN FALSE
    ELSE IF expected = data[i] THEN TRUE
    ELSE EqOneOfScan(expected, data, i + 1)

EqOneOf(t, expected, data, site) ==
    IF EqOneOfScan(expected, data, 1) THEN t
    ELSE LET loc == Caller(CallStack(103, site), 1)
         IN FormatError(t, IntV(expected), SliceV(data, FALSE),
                "The supplied value is not in the supplied slice.",
                loc.file, loc.line)

\* the comparison functions the tests hand to EqFunc
Cmps == {"same", "parity", "never"}

ApplyCmp(cmp, l, r) ==
    CASE cmp = "same" -> l = r
      [] cmp = "parity" -> (l % 2) = (r % 2)
      [] cmp = "never" -> FALSE

EqFunc(t, expected, got, cmp, site) ==
    IF ~ApplyCmp(cmp, expected, got)
    THEN LET loc == Caller(CallStack(130, site), 1)
         IN FormatError(t, IntV(expected), IntV(got),
                "The supplied values were not equal as defined by the supplied comparison function but were expected to be.",
                loc.file, loc.line)
    ELSE t

Neq(t, expected, got, site) ==
    IF GoEq(expected, got)
    THEN LET loc == Caller(CallStack(143, site), 1)
         IN FormatError(t, expected, got,
                "The supplied values were equal but were expected to not be.",
                loc.file, loc.line)
    ELSE t

True(t, v, site) ==
    IF v # TRUE
    THEN LET loc == Caller(CallStack(158, site), 1)
         IN FormatError(t, BoolV(TRUE), BoolV(v),
                "The supplied value was not true when it was expected to be.",
                loc.file, loc.line)
    ELSE t

False(t, v, site) ==
    IF v # FALSE
    THEN LET loc == Caller(CallStack(173, site), 1)
         IN FormatError(t, BoolV(FALSE), BoolV(v),
                "The supplied value was not false when it was expected to be.",
                loc.file, loc.line)
    ELSE t

\* Nil that knows the nil interface only
NilInterfaceOnly(t, v, site) ==
    IF v = NilV THEN t
    ELSE LET loc == Caller(CallStack(202, site), 1)
         IN FormatError(t, NilV, v,
                "The supplied value was not nil when it was expected to be.",
                loc.file, loc.line)

Nil(t, v, site) ==
    IF v = NilV THEN t
    ELSE IF IsZero(v) THEN t
    ELSE IF Kind(v) = "iface" /\ IsZero(Elem(v)) THEN t
    ELSE LET loc == Caller(CallStack(202, site), 1)
         IN FormatError(t, NilV, v,
                "The supplied value was not nil when it was expected to be.",
                loc.file, loc.line)

NotNil(t, v, site) ==
    LET fail == LET loc == Caller(CallStack(236, site), 1)
                IN FormatError(t, StrV("!nil"), v,
                       "The supplied value was nil when it was not expected to be.",
                       loc.file, loc.line)
    IN IF v = NilV THEN fail
       ELSE IF IsZero(v) THEN fail
       ELSE IF Kind(v) = "iface" /\ ~IsZero(Elem(v)) THEN fail
       ELSE t

\* the loop of SlicesMatch, from index i (1-based) on
RECURSIVE SlicesMatchLoop(_, _, _, _, _)
SlicesMatchLoop(t, expected, got, i, loc) ==
    IF ~Running(t) \/ i > Len(expected) THEN t
    ELSE IF i > Len(got) THEN Crash(t)
    ELSE LET t1 == IF expected[i] # got[i]
                   THEN FormatError(t, IntV(expected[i]), IntV(got[i]),
                            "Values do not match | Index: " \o Itoa(i - 1),
                            loc.file, loc.line)
                   ELSE t
         IN SlicesMatchLoop(t1, expected, got, i + 1, loc)

\* SlicesMatch without the comparison of the lengths
SlicesMatchNoLength(t, expected, got, site) ==
    SlicesMatchLoop(t, expected, got, 1, Caller(CallStack(249, site), 1))

SlicesMatch(t, expected, got, site) ==
    LET loc == Caller(CallStack(249, site), 1)
        t1 == IF Len(expected) # Len(got)
              THEN FormatError(t, IntV(Len(expected)), IntV(Len(got)),
                       "Slices do not match in length.", loc.file, loc.line)
              ELSE t
    IN SlicesMatchLoop(t1, expected, got, 1, loc)

\* FindUnused giving up at the first equal element of got, used or not
RECURSIVE FindFirstEqual(_, _, _, _, _)
FindFirstEqual(expected, got, usedIndexes, i, j) ==
    IF j > Len(got) THEN 0
    ELSE IF expected[i] = got[j]
    THEN IF j \notin usedIndexes THEN j ELSE 0
    ELSE FindFirstEqual(expected, got, usedIndexes, i, j + 1)

\* the inner loop of SlicesMatchUnordered from j on: the index of got that
\* expected[i] takes, 0 if it finds none
RECURSIVE FindUnused(_, _, _, _, _)
FindUnused(expected, got, usedIndexes, i, j) ==
    IF j > Len(got) THEN 0
    ELSE IF expected[i] = got[j] /\ j \notin usedIndexes THEN j
    ELSE FindUnused(expected, got, usedIndexes, i, j + 1)

\* the outer loop from i on, then the final comparison of the sizes
RECURSIVE UnorderedLoop(_, _, _, _, _, _)
UnorderedLoop(t, expected, got, usedIndexes, i, loc) ==
    IF ~Running(t) THEN t
    ELSE IF i > Len(expected)
    THEN IF Cardinality(usedIndexes) # Len(expected)
         THEN FormatError(t, SliceV(expected, FALSE), SliceV(got, FALSE),
                  "The slices were not found to have equivalent elements.",
                  loc.file, loc.line)
         ELSE t
    ELSE LET j == FindUnused(expected, got, usedIndexes, i, 1)
         IN IF j # 0
            THEN UnorderedLoop(t, expected, got, usedIndexes \cup {j}, i + 1, loc)
            ELSE IF i > Len(got) THEN Crash(t)
            ELSE UnorderedLoop(
                     FormatError(t, SliceV(expected, FALSE), IntV(got[i]),
                         "Slice value was not accounted for | Index: " \o Itoa(i - 1),
                         loc.file, loc.line),
                     expected, got, usedIndexes, i + 1, loc)

SlicesMatchUnordered(t, expected, got, site) ==
    LET loc == Caller(CallStack(272, site), 1)
        t1 == IF Len(expected) # Len(got)
              THEN FormatError(t, IntV(Len(expected)), IntV(Len(got)),
                       "Slices do not match in length.", loc.file, loc.line)
              ELSE t
    IN UnorderedLoop(t1, expected, got, {}, 1, loc)

\* the range loop of MapsMatch over the keys of expected in the order `order`
RECURSIVE MapsMatchLoop(_, _, _, _, _)
MapsMatchLoop(t, expected, got, order, loc) ==
    IF ~Running(t) \/ Len(order) = 0 THEN t
    ELSE LET k == order[1]
             v == expected[k]
             ok == k \in DOMAIN got
             gotV == IF ok THEN got[k] ELSE 0
             t1 == IF ~ok
                   THEN FormatError(t, BoolV(TRUE), BoolV(ok),
                            "A key was not found | Key: " \o k,
                            loc.file, loc.line)
                   ELSE t
             t2 == IF Running(t1) /\ gotV # v
                   THEN FormatError(t1, IntV(gotV), IntV(v),
                            "The values stored in the map did not match.",
                            loc.file, loc.line)
                   ELSE t1
         IN MapsMatchLoop(t2, expected, got, Tail(order), loc)

\* MapsMatch without the comparison of the sizes
MapsMatchNoLength(t, expected, got, order, site) ==
    MapsMatchLoop(t, expected, got, order, Caller(CallStack(318, site), 1))

MapsMatch(t, expected, got, order, site) ==
    LET loc == Caller(CallStack(318, site), 1)
        t1 == IF Cardinality(DOMAIN expected) # Cardinality(DOMAIN got)
              THEN FormatError(t, IntV(Cardinality(DOMAIN expected)),
                       IntV(Cardinality(DOMAIN got)),
                       "Maps do not match in length.", loc.file, loc.line)
              ELSE t
    IN MapsMatchLoop(t1, expected, got, order, loc)

(***************************************************************************)
(* The test data.                                                          *)
(***************************************************************************)
Slices == UNION {[1..n -> Elems] : n \in 0..MaxLen}

Maps == UNION {[D -> Elems] : D \in SUBSET Keys}

\* the orders in which a range loop may enumerate the key set D
Orders(D) ==
    {o \in [1..Cardinality(D) -> D] : \A k \in D : \E i \in DOMAIN o : o[i] = k}

Scalars == {IntV(1), IntV(2), StrV("1"), StrV("")}

NilInputs ==
    {NilV, IfaceV(NilV), IfaceV(PtrV(TRUE)), IfaceV(PtrV(FALSE)),
     IfaceV(SliceV(<<1>>, FALSE)), PtrV(TRUE), PtrV(FALSE),
     SliceV(<<>>, TRUE), SliceV(<<>>, FALSE), SliceV(<<0>>, FALSE),
     SliceV(<<1, 2>>, FALSE),
     MapV(<<>>, TRUE), MapV(<<>>, FALSE), MapV([k \in {"a"} |-> 1], FALSE),
     ArrayV(<<0, 0>>), ArrayV(<<1, 0>>),
     IntV(0), IntV(1), StrV(""), StrV("a"), BoolV(FALSE), BoolV(TRUE)}

Inputs ==
    {[kind |-> "scalar", expected |-> e, got |-> g] : e \in Scalars, g \in Scalars}
    \cup {[kind |-> "bool", v |-> b] : b \in BOOLEAN}
    \cup {[kind |-> "oneof", expected |-> e, list |-> l] : e \in Elems, l \in Slices}
    \cup {[kind |-> "error", expected |-> e, got |-> g] : e \in Errors, g \in Errors}
    \cup {[kind |-> "nil", v |-> v] : v \in NilInputs}
    \cup {[kind |-> "slices", expected |-> e, got |-> g] : e \in Slices, g \in Slices}
    \cup {[kind |-> "maps", expected |-> e, got |-> g] : e \in Maps, g \in Maps}
    \cup {[kind |-> "action", action |-> a] : a \in {"returns", "panics"}}

(***************************************************************************)
(* The state: the data the tests use, the test units, and the assertion    *)
(* call made last (which, by which unit, and the units before the call).   *)
(***************************************************************************)
VARIABLES data, units, last

vars == <<data, units, last>>

Init ==
    /\ data \in Inputs
    /\ units = [u \in Units |-> NewUnit]
    /\ last = [op |-> "none", unit |-> "none", cmp |-> "none",
               pre |-> [u \in Units |-> NewUnit]]

\* unit u is at an assertion call: its test function is still executing and
\* the test binary has not died of a panic
CanCall(u) ==
    /\ Running(units[u])
    /\ units[u].calls < MaxCalls
    /\ \A w \in Units : ~units[w].crashed

\* unit u as it enters its next assertion call, and the position of the call
Entering(u) == [units[u] EXCEPT !.calls = @ + 1]
Site(u) == CallSite(u, units[u].calls + 1)

Called(u, op, cmp, t) ==
    /\ units' = [units EXCEPT ![u] = t]
    /\ last' = [op |-> op, unit |-> u, cmp |-> cmp, pre |-> units]
    /\ UNCHANGED data

ContainsErrorCall(u) ==
    /\ CanCall(u) /\ data.kind = "error"
    /\ Called(u, "ContainsError", "none",
              ContainsError(Entering(u), data.expected, data.got, Site(u)))

PanicsCall(u) ==
    /\ CanCall(u) /\ data.kind = "action"
    /\ Called(u, "Panics", "none", Panics(Entering(u), data.action, Site(u)))

NoPanicCall(u) ==
    /\ CanCall(u) /\ data.kind = "action"
    /\ Called(u, "NoPanic", "none", NoPanic(Entering(u), data.action, Site(u)))

EqCall(u) ==
    /\ CanCall(u) /\ data.kind = "scalar"
    /\ data.expected.kind = data.got.kind
    /\ Called(u, "Eq", "none", Eq(Entering(u), data.expected, data.got, Site(u)))

EqOneOfCall(u) ==
    /\ CanCall(u) /\ data.kind = "oneof"
    /\ Called(u, "EqOneOf", "none",
              EqOneOf(Entering(u), data.expected, data.list, Site(u)))

EqFuncCall(u) ==
    /\ CanCall(u) /\ data.kind = "scalar"
    /\ data.expected.kind = "int" /\ data.got.kind = "int"
    /\ \E cmp \in Cmps :
           Called(u, "EqFunc", cmp,
                  EqFunc(Entering(u), data.expected.int, data.got.int, cmp, Site(u)))

NeqCall(u) ==
    /\ CanCall(u) /\ data.kind = "scalar"
    /\ Called(u, "Neq", "none",
              Neq(Entering(u), ToAny(data.expected), ToAny(data.got), Site(u)))

TrueCall(u) ==
    /\ CanCall(u) /\ data.kind = "bool"
    /\ Called(u, "True", "none", True(Entering(u), data.v, Site(u)))

FalseCall(u) ==
    /\ CanCall(u) /\ data.kind = "bool"
    /\ Called(u, "False", "none", False(Entering(u), data.v, Site(u)))

NilCall(u) ==
    /\ CanCall(u) /\ data.kind = "nil"
    /\ Called(u, "Nil", "none", Nil(Entering(u), ToAny(data.v), Site(u)))

NotNilCall(u) ==
    /\ CanCall(u) /\ data.kind = "nil"
    /\ Called(u, "NotNil", "none", NotNil(Entering(u), ToAny(data.v), Site(u)))

SlicesMatchCall(u) ==
    /\ CanCall(u) /\ data.kind = "slices"
    /\ Called(u, "SlicesMatch", "none",
              SlicesMatch(Entering(u), data.expected, data.got, Site(u)))

SlicesMatchUnorderedCall(u) ==
    /\ CanCall(u) /\ data.kind = "slices"
    /\ Called(u, "SlicesMatchUnordered", "none",
              SlicesMatchUnordered(Entering(u), data.expected, data.got, Site(u)))

MapsMatchCall(u) ==
    /\ CanCall(u) /\ data.kind = "maps"
    /\ \E order \in Orders(DOMAIN data.expected) :
           Called(u, "MapsMatch", "none",
                  MapsMatch(Entering(u), data.expected, data.got, order, Site(u)))

Next ==
    \E u \in Units :
        \/ ContainsErrorCall(u)
        \/ PanicsCall(u)
        \/ NoPanicCall(u)
        \/ EqCall(u)
        \/ EqOneOfCall(u)
        \/ EqFuncCall(u)
        \/ NeqCall(u)
        \/ TrueCall(u)
        \/ FalseCall(u)
        \/ NilCall(u)
        \/ NotNilCall(u)
        \/ SlicesMatchCall(u)
        \/ SlicesMatchUnorderedCall(u)
        \/ MapsMatchCall(u)

Spec == Init /\ [][Next]_vars

(***************************************************************************)
(* Vocabulary of the properties.                                           *)
(***************************************************************************)
\* the unit that made the last call, before and after the call
Before == last.pre[last.unit]
After == units[last.unit]

\* the reports the last call added
NewReports == Len(After.reports) - Len(Before.reports)
Reported == NewReports > 0
Passed == NewReports = 0 /\ ~After.crashed
LastReport == After.reports[Len(After.reports)]

\* the last call left the testing.T and the goroutine of its unit as they were
Untouched ==
    /\ After.reports = Before.reports
    /\ After.failed = Before.failed
    /\ After.halted = Before.halted
    /\ After.crashed = Before.crashed

\* the position in the test code of the last call
LastSite == CallSite(last.unit, Before.calls + 1)

(***************************************************************************)
(* C1.  A failing assertion produces exactly one report and halts its      *)
(* unit: a unit never holds more than one report, it is halted exactly     *)
(* when it has failed, a halted unit makes no further call, no assertion   *)
(* ends in a run-time panic (got is never indexed past its end), and a     *)
(* call leaves the other units as they were.  SlicesMatch and              *)
(* SlicesMatchUnordered on slices of different lengths report the lengths  *)
(* and nothing else; MapsMatch reports a missing key alone.                *)
(***************************************************************************)
C1_OneReportThenHalt ==
    /\ \A u \in Units :
           /\ Len(units[u].reports) <= 1
           /\ units[u].failed <=> Len(units[u].reports) = 1
           /\ units[u].halted <=> units[u].failed
           /\ ~units[u].crashed
    /\ last.op # "none" =>
           /\ Running(Before)
           /\ NewReports <= 1
           /\ \A w \in Units \ {last.unit} : units[w] = last.pre[w]
    /\ last.op \in {"SlicesMatch", "SlicesMatchUnordered"}
         /\ Len(data.expected) # Len(data.got) =>
           /\ NewReports = 1
           /\ LastReport.base = "Slices do not match in length."
    /\ last.op = "MapsMatch"
         /\ Cardinality(DOMAIN data.expected) = Cardinality(DOMAIN data.got)
         /\ DOMAIN data.expected # DOMAIN data.got =>
           NewReports = 1

\* one unit stopped at a length mismatch (expected longer than got), the
\* other ran afterwards and failed on its own
C1_Witness ==
    /\ last.op = "SlicesMatch"
    /\ Len(data.expected) > Len(data.got)
    /\ After.halted /\ Len(After.reports) = 1
    /\ \E w \in Units \ {last.unit} : last.pre[w].halted

(***************************************************************************)
(* C2.  SlicesMatchUnordered passes exactly when expected and got are      *)
(* equal as multisets: same length and a one-to-one pairing of the indexes *)
(* of expected with those of got under which paired elements are equal.    *)
(***************************************************************************)
Pairings(n) == {f \in [1..n -> 1..n] : \A i, j \in 1..n : f[i] = f[j] => i = j}

SameMultiset(expected, got) ==
    /\ Len(expected) = Len(got)
    /\ \E f \in Pairings(Len(expected)) :
           \A i \in 1..Len(expected) : expected[i] = got[f[i]]

C2_UnorderedIsMultisetEquality ==
    last.op = "SlicesMatchUnordered" =>
        /\ Passed <=> SameMultiset(data.expected, data.got)
        /\ Reported <=> ~SameMultiset(data.expected, data.got)

\* [1,1,2] against [1,2,1] has passed
C2_Witness ==
    /\ last.op = "SlicesMatchUnordered"
    /\ data.expected = <<1, 1, 2>> /\ data.got = <<1, 2, 1>>
    /\ Passed

(***************************************************************************)
(* C3.  SlicesMatch passes exactly when the slices have the same length    *)
(* and agree at every index.  When the lengths differ the report is the    *)
(* length mismatch, with the two lengths; otherwise it is the mismatch at  *)
(* the smallest differing index.                                           *)
(***************************************************************************)
SameSlices(expected, got) ==
    /\ Len(expected) = Len(got)
    /\ \A i \in 1..Len(expected) : expected[i] = got[i]

FirstDiff(expected, got) ==
    CHOOSE i \in 1..Len(expected) :
        /\ expected[i] # got[i]
        /\ \A j \in 1..(i - 1) : expected[j] = got[j]

C3_SlicesMatchRule ==
    last.op = "SlicesMatch" =>
        /\ Passed <=> SameSlices(data.expected, data.got)
        /\ Reported <=> ~SameSlices(data.expected, data.got)
        /\ Reported /\ Len(data.expected) # Len(data.got) =>
               /\ LastReport.base = "Slices do not match in length."
               /\ LastReport.expected = ValueLine(IntV(Len(data.expected)))
               /\ LastReport.got = ValueLine(IntV(Len(data.got)))
        /\ Reported /\ Len(data.expected) = Len(data.got) =>
               LET i == FirstDiff(data.expected, data.got)
               IN /\ LastReport.base = "Values do not match | Index: " \o Itoa(i - 1)
                  /\ LastReport.expected = ValueLine(IntV(data.expected[i]))
                  /\ LastReport.got = ValueLine(IntV(data.got[i]))

\* slices of one length that differ at two indexes: the first is reported
C3_Witness ==
    /\ last.op = "SlicesMatch"
    /\ data.expected = <<1, 2, 1>> /\ data.got = <<1, 1, 2>>
    /\ Reported
    /\ LastReport.base = "Values do not match | Index: 1"

(***************************************************************************)
(* C4.  MapsMatch passes exactly when the maps have the same number of     *)
(* entries and every key of expected is in got with an equal value,        *)
(* whatever the order in which the entries of expected are enumerated.     *)
(***************************************************************************)
SameMaps(expected, got) ==
    /\ Cardinality(DOMAIN expected) = Cardinality(DOMAIN got)
    /\ \A k \in DOMAIN expected : k \in DOMAIN got /\ got[k] = expected[k]

C4_MapsMatchRule ==
    last.op = "MapsMatch" =>
        /\ Passed <=> SameMaps(data.expected, data.got)
        /\ Reported <=> ~SameMaps(data.expected, data.got)

\* every key of expected is in got with an equal value, got is larger: fails
C4_Witness ==
    /\ last.op = "MapsMatch"
    /\ Cardinality(DOMAIN data.expected) = 2
    /\ Cardinality(DOMAIN data.got) = 3
    /\ \A k \in DOMAIN data.expected : data.got[k] = data.expected[k]
    /\ Reported

(***************************************************************************)
(* C5.  A panic of the action handed to Panics or NoPanic never leaves the *)
(* assertion.  Panics reports exactly when the action returns normally and *)
(* passes exactly when it panics; NoPanic the other way round.             *)
(***************************************************************************)
C5_PanicsAreRecovered ==
    /\ last.op \in {"Panics", "NoPanic"} => ~After.crashed
    /\ last.op = "Panics" =>
           /\ Passed <=> data.action = "panics"
           /\ Reported <=> data.action = "returns"
    /\ last.op = "NoPanic" =>
           /\ Passed <=> data.action = "returns"
           /\ Reported <=> data.action = "panics"

\* NoPanic met a panic: a report, the unit halted, the test binary alive
C5_Witness ==
    /\ last.op = "NoPanic" /\ data.action = "panics"
    /\ Reported /\ After.halted /\ ~After.crashed

(***************************************************************************)
(* C6.  Nil passes for the nil interface value, for a nil slice, map or    *)
(* pointer, and for an interface holding a nil value; it reports a failure *)
(* for a populated container.                                              *)
(***************************************************************************)
NilReference(x) == x.kind \in {"slice", "map", "ptr"} /\ x.isnil

\* one of the three forms of absence
Absent(x) ==
    \/ x = NilV
    \/ NilReference(x)
    \/ x.kind = "iface" /\ (x.held = NilV \/ NilReference(x.held))

\* a container that holds something: a slice or a map with an element, an
\* array with an element that is not the zero value
Populated(x) ==
    \/ x.kind = "slice" /\ Len(x.elems) > 0
    \/ x.kind = "map" /\ DOMAIN x.entries # {}
    \/ x.kind = "array" /\ \E i \in 1..Len(x.elems) : x.elems[i] # 0
    \/ x.kind = "iface" /\ x.held.kind = "slice" /\ Len(x.held.elems) > 0

C6_NilAcceptsAbsence ==
    last.op = "Nil" =>
        /\ Absent(data.v) => Passed /\ Untouched
        /\ Populated(data.v) => Reported /\ After.halted

\* Nil has passed on an interface that holds a nil pointer
C6_Witness ==
    /\ last.op = "Nil"
    /\ data.v = IfaceV(PtrV(TRUE))
    /\ Passed

(***************************************************************************)
(* C7.  Eq, Neq, EqOneOf, EqFunc, True, False and ContainsError report     *)
(* exactly when their rule is not satisfied; when it is satisfied the call *)
(* leaves the unit as it was, however often it is repeated.                *)
(***************************************************************************)
RECURSIVE UnwrapN(_, _)
UnwrapN(e, n) == IF n = 0 THEN e ELSE UnwrapN(Unwrap(e), n - 1)

\* err itself, then the errors that unwrapping it yields
Chain(err) == {err} \cup ({UnwrapN(err, n) : n \in 1..Cardinality(Errors)} \ {0})

Satisfied ==
    CASE last.op = "Eq" -> data.expected = data.got
      [] last.op = "Neq" -> data.expected # data.got
      [] last.op = "EqOneOf" ->
             \E i \in 1..Len(data.list) : data.list[i] = data.expected
      [] last.op = "EqFunc" ->
             ApplyCmp(last.cmp, data.expected.int, data.got.int)
      [] last.op = "True" -> data.v = TRUE
      [] last.op = "False" -> data.v = FALSE
      [] last.op = "ContainsError" -> data.expected \in Chain(data.got)

C7_ReportIffRuleFails ==
    last.op \in {"Eq", "Neq", "EqOneOf", "EqFunc", "True", "False",
                 "ContainsError"} =>
        /\ Reported <=> ~Satisfied
        /\ Reported => NewReports = 1 /\ After.failed
        /\ Satisfied => Untouched /\ After.reports = <<>>

\* ContainsError has passed a second time on an error wrapped twice
C7_Witness ==
    /\ last.op = "ContainsError"
    /\ data.expected = 1 /\ data.got = 4
    /\ After.calls = MaxCalls /\ After.calls > 1
    /\ Passed /\ After.reports = <<>>

(***************************************************************************)
(* C8.  Every failure report carries the file and the line of the test     *)
(* code's call of the assertion, whatever the assertion.                   *)
(***************************************************************************)
C8_ReportNamesCallSite ==
    last.op # "none" /\ Reported =>
        /\ LastReport.file = LastSite.file
        /\ LastReport.line = LastSite.line

(***************************************************************************)
(* C9.  NotNil is the complement of Nil: exactly one of the two reports a  *)
(* failure on any value, and NotNil fails precisely on the nil interface   *)
(* value, a nil slice, map or pointer, and an interface holding a nil      *)
(* value.                                                                  *)
(***************************************************************************)
\* Nil, called in place of the last call, would report
NilWouldReport ==
    Len(Nil([Before EXCEPT !.calls = @ + 1], ToAny(data.v), LastSite).reports)
        > Len(Before.reports)

C9_NotNilIsComplementOfNil ==
    last.op = "NotNil" =>
        /\ Reported <=> ~NilWouldReport
        /\ Reported <=> Absent(data.v)

(***************************************************************************)
(* C10.  The Expected line of a report comes from the expected argument    *)
(* and the Got line from the got argument: for Eq the two values; for      *)
(* SlicesMatch the lengths or the elements at the reported index; for a    *)
(* value mismatch of MapsMatch the values of expected and of got at one    *)
(* key; for an unmatched element of SlicesMatchUnordered that element and  *)
(* the got slice.                                                          *)
(***************************************************************************)
C10_ExpectedAndGotNotSwapped ==
    last.op # "none" /\ Reported =>
        /\ last.op = "Eq" =>
               /\ LastReport.expected = ValueLine(data.expected)
               /\ LastReport.got = ValueLine(data.got)
        /\ last.op = "SlicesMatch" =>
               \/ /\ LastReport.expected = ValueLine(IntV(Len(data.expected)))
                  /\ LastReport.got = ValueLine(IntV(Len(data.got)))
                  /\ Len(data.expected) # Len(data.got)
               \/ \E i \in 1..Len(data.expected) :
                      /\ Len(data.expected) = Len(data.got)
                      /\ data.expected[i] # data.got[i]
                      /\ LastReport.expected = ValueLine(IntV(data.expected[i]))
                      /\ LastReport.got = ValueLine(IntV(data.got[i]))
        /\ last.op = "MapsMatch"
             /\ LastReport.base = "The values stored in the map did not match." =>
               \E k \in DOMAIN data.expected \cap DOMAIN data.got :
                   /\ LastReport.expected = ValueLine(IntV(data.expected[k]))
                   /\ LastReport.got = ValueLine(IntV(data.got[k]))
        /\ last.op = "SlicesMatchUnordered"
             /\ Len(data.expected) = Len(data.got) =>
               \E i \in 1..Len(data.expected) :
                   /\ LastReport.expected = ValueLine(IntV(data.expected[i]))
                   /\ LastReport.got = ValueLine(SliceV(data.got, FALSE))

====
